---- MODULE Spec2Model ----
(***************************************************************************)
(* Model of internal/exchanges/dydx/scripts/dydx_client.py: one process    *)
(* invocation of the dYdX command bridge.  The external SDK                *)
(* (dydx_v4_client) is the environment: each of its calls either returns   *)
(* or raises an Exception whose message the SDK chooses.                   *)
(***************************************************************************)
EXTENDS Naturals, Sequences, FiniteSets

(* ---------------------------------------------------------------------- *)
(* Bounds of the input space                                               *)
(* ---------------------------------------------------------------------- *)
MaxSubaccounts == 2
MaxPositions == 2

(* ---------------------------------------------------------------------- *)
(* Values                                                                  *)
(* ---------------------------------------------------------------------- *)
\* A key that is missing from a JSON object / a Python None.
Absent == "<absent>"

\* An exception message or an f-string: fixed text plus one interpolated value.
Msg(text, arg) == [text |-> text, arg |-> arg]
NoMsg == Msg("", "")

\* str(x) as used by the f-strings: None prints as "None".
Str(v) == IF v = Absent THEN "None" ELSE v

MNEMONIC_MISSING == Msg("mnemonic not provided in environment (DYDX_MNEMONIC_SECRET)", "")
SDK_MISSING == Msg("dydx-v4-client-py not installed. Run: pip install dydx-v4-client-py", "")
ORDER_ID_REQUIRED == Msg("orderId is required", "")
NOT_INITIALIZED == Msg("Client not initialized. Call initialize() first.", "")

\* The empty balances mapping {}.
EmptyBalance == [s \in {} |-> ""]

\* A Result: `keys` are the keys present in the emitted JSON object.
Result(keys, success, error, orderId, clientId, txHash, balance) ==
    [keys |-> keys, success |-> success, error |-> error, orderId |-> orderId,
     clientId |-> clientId, txHash |-> txHash, balance |-> balance]

\* {"success": False, "error": str(e)}
Failure(m) == Result({"success", "error"}, FALSE, m, Absent, Absent, Absent, EmptyBalance)

NoResult == Result({}, FALSE, NoMsg, Absent, Absent, Absent, EmptyBalance)

(* ---------------------------------------------------------------------- *)
(* Inputs: stdin, the environment, and what the SDK answers                *)
(* ---------------------------------------------------------------------- *)
Commands == {"place_order", "cancel_order", "get_balance", "bogus", Absent}
Networks == {"testnet", "mainnet", "devnet", Absent}
Mnemonics == {"", "abandon ability able", "zoo zone zero"}

DataOf(kind, orderId, clientId, size) ==
    [kind |-> kind, orderId |-> orderId, clientId |-> clientId, size |-> size]
\* "data" key missing; "data" not a JSON object (null, list, ...); "data" = {}
AbsentData == DataOf("absent", Absent, Absent, Absent)
NonDictData == DataOf("nondict", Absent, Absent, Absent)
EmptyDict == DataOf("dict", Absent, Absent, Absent)
Datas ==
    {AbsentData, NonDictData, EmptyDict,
     DataOf("dict", "", Absent, Absent),
     DataOf("dict", "o1", Absent, Absent),
     DataOf("dict", Absent, "c1", "1.5"),
     DataOf("dict", Absent, Absent, "abc")}

Stdin(kind, c, n, d) == [kind |-> kind, command |-> c, network |-> n, data |-> d]
Stdins ==
    {Stdin("malformed", Absent, Absent, AbsentData),
     Stdin("nonobject", Absent, Absent, AbsentData)}
    \cup {Stdin("object", c, n, d) : c \in Commands, n \in Networks, d \in Datas}

\* Strings float() accepts.
NumericStrings == {"1.5", "0"}

Uuids == {"uuid-a", "uuid-b"}
TxHashes == {Absent, "0xabc"}

\* Asset positions of a subaccount as the indexer returns them.
Position(symbol, size) == [symbol |-> symbol, size |-> size]
PositionValues == {Position("USDC", "1"), Position(Absent, "2"), Position("BTC", Absent)}

SeqsUpTo(S, n) == UNION {[1..k -> S] : k \in 0..n}

FirstSubaccounts == SeqsUpTo(PositionValues, MaxPositions)
OtherSubaccounts == {<<>>, <<Position("USDC", "7"), Position("ETH", "9")>>}
\* Answers of get_subaccounts: a list of subaccounts, each a list of positions.
Accounts ==
    {<<>>} \cup
    {<<f>> \o r : f \in FirstSubaccounts, r \in SeqsUpTo(OtherSubaccounts, MaxSubaccounts - 1)}

\* Messages of the exceptions the SDK raises.  KeyPair.from_mnemonic and
\* Wallet.from_mnemonic receive the mnemonic and may quote it.
ConnectErrors == {Msg("failed to connect to all addresses", "")}
WalletErrors(m) == {Msg("account not found", ""), Msg("Invalid mnemonic: ", m)}
CancelErrors == {Msg("order not found", "")}
QueryErrors == {Msg("indexer unavailable", "")}
MainnetErrors == {Msg("make_mainnet() got an unexpected keyword argument", "")}

(* ---------------------------------------------------------------------- *)
(* State                                                                   *)
(* ---------------------------------------------------------------------- *)
VARIABLES
    HAS_DYDX,      \* the import at module load succeeded
    stdin,         \* what the parent process wrote to stdin
    environ,       \* os.environ["DYDX_MNEMONIC_SECRET"] ("" when unset)
    pc,            \* position of the process
    command, network, data, mnemonic,   \* locals of main()
    self_network,  \* wrapper.network
    client,        \* wrapper.client: the profile the node client is connected to
    wallet,        \* wrapper.wallet
    account,       \* answer of get_subaccounts
    result,        \* local `result`
    stdout,        \* the Results printed so far
    exitcode,      \* process exit status, NotExited while running
    exc,           \* the exception in flight
    inTry,         \* control is inside main()'s try block
    sdkCalls,      \* the SDK calls made, in order
    raised         \* messages of the Exceptions raised so far

vars == <<HAS_DYDX, stdin, environ, pc, command, network, data, mnemonic,
          self_network, client, wallet, account, result, stdout, exitcode,
          exc, inTry, sdkCalls, raised>>

NotExited == 2
None == "None"

Exc(cls, msg, code) == [cls |-> cls, msg |-> msg, code |-> code]
NoExc == Exc("none", NoMsg, 0)

Call(fn, net, ok, msg) == [fn |-> fn, net |-> net, ok |-> ok, msg |-> msg]

Init ==
    /\ HAS_DYDX \in BOOLEAN
    /\ stdin \in Stdins
    /\ environ \in Mnemonics
    /\ pc = "start"
    /\ command = Absent
    /\ network = Absent
    /\ data = AbsentData
    /\ mnemonic = ""
    /\ self_network = None
    /\ client = None
    /\ wallet = None
    /\ account = <<>>
    /\ result = NoResult
    /\ stdout = <<>>
    /\ exitcode = NotExited
    /\ exc = NoExc
    /\ inTry = FALSE
    /\ sdkCalls = <<>>
    /\ raised = <<>>


(* ---------------------------------------------------------------------- *)
(* Pure parts of the program                                               *)
(* ---------------------------------------------------------------------- *)
\* Python truthiness of a string-or-None value: `not v`.
Falsy(v) == v = Absent \/ v = ""

\* main() without the credential check.
MnemonicNeverMissing(m) == FALSE

\* `not mnemonic` in main().
MnemonicMissing(m) == Falsy(m)

\* input_data.get("network", "testnet") and input_data.get("data", {})
NetworkOrDefault(n) == IF n = Absent THEN "testnet" ELSE n
DataOrDefault(d) == IF d.kind = "absent" THEN EmptyDict ELSE d

\* A bare `except:` in main(), which also catches SystemExit.
CatchesAll(e) == e.cls \in {"Exception", "SystemExit"}

\* `except Exception` of main(): SystemExit derives from BaseException only.
Catches(e) == e.cls = "Exception"

\* sys.exit(0) whatever the Result is.
ExitCodeAlwaysZero(r) == 0

\* 0 if result.get("success") else 1
ExitCodeFor(r) == IF "success" \in r.keys /\ r.success THEN 0 ELSE 1

\* DydxClientWrapper.__init__: the profile chosen for `network`, given whether
\* make_mainnet returns.  [raises, msg, profile, calls, swallowed]
Constructor(has_dydx, n, mainnetOk, mainnetMsg) ==
    IF ~has_dydx
    THEN [raises |-> TRUE, msg |-> SDK_MISSING, profile |-> None,
          calls |-> <<>>, swallowed |-> <<>>]
    ELSE IF n = "testnet"
    THEN [raises |-> FALSE, msg |-> NoMsg, profile |-> "TESTNET",
          calls |-> <<>>, swallowed |-> <<>>]
    ELSE IF n = "mainnet"
    THEN IF mainnetOk
         THEN [raises |-> FALSE, msg |-> NoMsg, profile |-> "MAINNET",
               calls |-> <<Call("make_mainnet", "MAINNET", TRUE, NoMsg)>>,
               swallowed |-> <<>>]
         ELSE [raises |-> FALSE, msg |-> NoMsg, profile |-> "TESTNET",
               calls |-> <<Call("make_mainnet", "MAINNET", FALSE, mainnetMsg)>>,
               swallowed |-> <<mainnetMsg>>]
    ELSE [raises |-> TRUE, msg |-> Msg("Invalid network: ", Str(n)), profile |-> None,
          calls |-> <<>>, swallowed |-> <<>>]

\* What a handler hands back to execute_command: the Result, the SDK calls it
\* made and the messages of the exceptions it caught.
Handled(r, calls, caught) == [result |-> r, calls |-> calls, caught |-> caught]
Caught(m, calls) == Handled(Failure(m), calls, <<m>>)

ATTRIBUTE_ERROR == Msg("object has no attribute 'get'", "")
FloatError(v) == Msg("could not convert string to float: ", v)

\* DydxClientWrapper.place_order.  market, side, type and price are read with
\* defaults like size and, like it, never reach the Result; size stands for
\* the float() conversions.  No SDK call is made: the order id is a fresh uuid.
place_order(cl, w, d, order_id) ==
    IF cl = None \/ w = None THEN Caught(NOT_INITIALIZED, <<>>)
    ELSE IF d.kind # "dict" THEN Caught(ATTRIBUTE_ERROR, <<>>)
    ELSE IF d.size # Absent /\ d.size \notin NumericStrings
    THEN Caught(FloatError(d.size), <<>>)
    ELSE Handled(Result({"success", "orderId", "clientId", "txHash"}, TRUE, NoMsg,
                        order_id,
                        IF Falsy(d.clientId) THEN order_id ELSE d.clientId,
                        "", EmptyBalance),
                 <<>>, <<>>)

\* cancel_order without the orderId check.
OrderIdNeverMissing(v) == FALSE

\* `not order_id` in cancel_order
OrderIdMissing(v) == Falsy(v)

\* DydxClientWrapper.cancel_order; (ok, tx, m) is what client.cancel_order does.
cancel_order(cl, w, d, ok, tx, m) ==
    IF cl = None \/ w = None THEN Caught(NOT_INITIALIZED, <<>>)
    ELSE IF d.kind # "dict" THEN Caught(ATTRIBUTE_ERROR, <<>>)
    ELSE IF OrderIdMissing(d.orderId) THEN Handled(Failure(ORDER_ID_REQUIRED), <<>>, <<>>)
    ELSE IF ok
    THEN Handled(Result({"success", "orderId", "txHash"}, TRUE, NoMsg, d.orderId, Absent,
                        IF tx = Absent THEN "" ELSE tx, EmptyBalance),
                 <<Call("cancel_order", cl, TRUE, NoMsg)>>, <<>>)
    ELSE Caught(m, <<Call("cancel_order", cl, FALSE, m)>>)

\* asset_pos.get("symbol", "USDC") and asset_pos.get("size", "0")
AssetOf(p) == IF p.symbol = Absent THEN "USDC" ELSE p.symbol
AmountOf(p) == IF p.size = Absent THEN "0" ELSE p.size

\* balances[asset] = amount
Put(f, k, v) == [x \in DOMAIN f \cup {k} |-> IF x = k THEN v ELSE f[x]]

\* The loop over the asset positions, in order.
RECURSIVE BalancesOf(_, _)
BalancesOf(positions, balances) ==
    IF positions = <<>> THEN balances
    ELSE BalancesOf(Tail(positions),
                    Put(balances, AssetOf(Head(positions)), AmountOf(Head(positions))))

\* account[-1]
LastSubaccount(acct) == acct[Len(acct)]

\* account[0]
FirstSubaccount(acct) == acct[1]

\* DydxClientWrapper.get_balance; (ok, acct, m) is what client.get_subaccounts does.
get_balance(cl, w, ok, acct, m) ==
    IF cl = None \/ w = None THEN Caught(NOT_INITIALIZED, <<>>)
    ELSE IF ok
    THEN Handled(Result({"success", "balance"}, TRUE, NoMsg, Absent, Absent, Absent,
                        IF acct # <<>> THEN BalancesOf(FirstSubaccount(acct), EmptyBalance)
                        ELSE EmptyBalance),
                 <<Call("get_subaccounts", cl, TRUE, NoMsg)>>, <<>>)
    ELSE Caught(m, <<Call("get_subaccounts", cl, FALSE, m)>>)

\* execute_command with get_balance as the final else branch.
HandlerForElseBalance(c) ==
    IF c = "place_order" THEN "place_order"
    ELSE IF c = "cancel_order" THEN "cancel_order"
    ELSE "get_balance"

\* The branch execute_command takes.
HandlerFor(c) ==
    IF c = "place_order" THEN "place_order"
    ELSE IF c = "cancel_order" THEN "cancel_order"
    ELSE IF c = "get_balance" THEN "get_balance"
    ELSE "unknown"

UnknownCommand(c) == Failure(Msg("Unknown command: ", Str(c)))


(* ---------------------------------------------------------------------- *)
(* Steps of the process                                                    *)
(* ---------------------------------------------------------------------- *)
\* raise an Exception with message m where control currently is
Throw(m) ==
    /\ exc' = Exc("Exception", m, 1)
    /\ raised' = Append(raised, m)
    /\ pc' = "raised"

\* sys.exit(code)
SysExit(code) ==
    /\ exc' = Exc("SystemExit", NoMsg, code)
    /\ pc' = "raised"

\* __main__ with the SDK missing: print the fixed failure, sys.exit(1).
StartupNoSdk ==
    /\ pc = "start"
    /\ ~HAS_DYDX
    /\ result' = Failure(SDK_MISSING)
    /\ stdout' = Append(stdout, result')
    /\ SysExit(1)
    /\ UNCHANGED <<HAS_DYDX, stdin, environ, command, network, data, mnemonic,
                   self_network, client, wallet, account, exitcode, inTry,
                   sdkCalls, raised>>

\* __main__ with the SDK present: asyncio.run(main()) enters main()'s try.
StartupRun ==
    /\ pc = "start"
    /\ HAS_DYDX
    /\ pc' = "main"
    /\ inTry' = TRUE
    /\ UNCHANGED <<HAS_DYDX, stdin, environ, command, network, data, mnemonic,
                   self_network, client, wallet, account, result, stdout,
                   exitcode, exc, sdkCalls, raised>>

\* main(): json.loads(sys.stdin.read()) fails, or the value has no .get
MainParseError ==
    /\ pc = "main"
    /\ stdin.kind # "object"
    /\ Throw(IF stdin.kind = "malformed" THEN Msg("Expecting value: line 1 column 1 (char 0)", "")
             ELSE ATTRIBUTE_ERROR)
    /\ UNCHANGED <<HAS_DYDX, stdin, environ, command, network, data, mnemonic,
                   self_network, client, wallet, account, result, stdout,
                   exitcode, inTry, sdkCalls>>

\* main(): parse the request, read the mnemonic, take the `if not mnemonic` branch
MainParse ==
    /\ pc = "main"
    /\ stdin.kind = "object"
    /\ command' = stdin.command
    /\ network' = NetworkOrDefault(stdin.network)
    /\ data' = DataOrDefault(stdin.data)
    /\ mnemonic' = environ
    /\ IF MnemonicMissing(mnemonic')
       THEN result' = Failure(MNEMONIC_MISSING) /\ pc' = "print"
       ELSE result' = result /\ pc' = "construct"
    /\ UNCHANGED <<HAS_DYDX, stdin, environ, self_network, client, wallet, account,
                   stdout, exitcode, exc, inTry, sdkCalls, raised>>

\* wrapper = DydxClientWrapper(network, mnemonic)
Construct ==
    /\ pc = "construct"
    /\ \E mainnetOk \in BOOLEAN, mm \in MainnetErrors :
          LET r == Constructor(HAS_DYDX, network, mainnetOk, mm) IN
          /\ sdkCalls' = sdkCalls \o r.calls
          /\ IF r.raises
             THEN /\ exc' = Exc("Exception", r.msg, 1)
                  /\ raised' = Append(raised \o r.swallowed, r.msg)
                  /\ pc' = "raised"
                  /\ UNCHANGED self_network
             ELSE /\ self_network' = r.profile
                  /\ raised' = raised \o r.swallowed
                  /\ pc' = "connect"
                  /\ UNCHANGED exc
    /\ UNCHANGED <<HAS_DYDX, stdin, environ, command, network, data, mnemonic,
                   client, wallet, account, result, stdout, exitcode, inTry>>

\* initialize(): self.client = await NodeClient.connect(self.network.node)
Connect ==
    /\ pc = "connect"
    /\ \E ok \in BOOLEAN, m \in ConnectErrors :
          /\ sdkCalls' = Append(sdkCalls,
                                Call("NodeClient.connect", self_network, ok,
                                     IF ok THEN NoMsg ELSE m))
          /\ IF ok
             THEN client' = self_network /\ pc' = "keypair" /\ UNCHANGED <<exc, raised>>
             ELSE Throw(m) /\ UNCHANGED client
    /\ UNCHANGED <<HAS_DYDX, stdin, environ, command, network, data, mnemonic,
                   self_network, wallet, account, result, stdout, exitcode, inTry>>

\* initialize(): KeyPair.from_mnemonic(self.mnemonic), the temporary Wallet
DeriveKeyPair ==
    /\ pc = "keypair"
    /\ \E ok \in BOOLEAN, m \in WalletErrors(mnemonic) :
          /\ sdkCalls' = Append(sdkCalls,
                                Call("KeyPair.from_mnemonic", "local", ok,
                                     IF ok THEN NoMsg ELSE m))
          /\ IF ok
             THEN pc' = "wallet" /\ UNCHANGED <<exc, raised>>
             ELSE Throw(m)
    /\ UNCHANGED <<HAS_DYDX, stdin, environ, command, network, data, mnemonic,
                   self_network, client, wallet, account, result, stdout,
                   exitcode, inTry>>

\* initialize(): self.wallet = await Wallet.from_mnemonic(self.client, ...)
CreateWallet ==
    /\ pc = "wallet"
    /\ \E ok \in BOOLEAN, m \in WalletErrors(mnemonic) :
          /\ sdkCalls' = Append(sdkCalls,
                                Call("Wallet.from_mnemonic", client, ok,
                                     IF ok THEN NoMsg ELSE m))
          /\ IF ok
             THEN wallet' = "wallet" /\ pc' = "dispatch" /\ UNCHANGED <<exc, raised>>
             ELSE Throw(m) /\ UNCHANGED wallet
    /\ UNCHANGED <<HAS_DYDX, stdin, environ, command, network, data, mnemonic,
                   self_network, client, account, result, stdout, exitcode, inTry>>

\* what every branch of execute_command leaves behind
Return(h) ==
    /\ result' = h.result
    /\ sdkCalls' = sdkCalls \o h.calls
    /\ raised' = raised \o h.caught
    /\ pc' = "print"
    /\ UNCHANGED <<HAS_DYDX, stdin, environ, command, network, data, mnemonic,
                   self_network, client, wallet, stdout, exitcode, exc, inTry>>

PlaceOrder ==
    /\ pc = "dispatch"
    /\ HandlerFor(command) = "place_order"
    /\ \E order_id \in Uuids : Return(place_order(client, wallet, data, order_id))
    /\ UNCHANGED account

CancelOrder ==
    /\ pc = "dispatch"
    /\ HandlerFor(command) = "cancel_order"
    /\ \E ok \in BOOLEAN, tx \in TxHashes, m \in CancelErrors :
          Return(cancel_order(client, wallet, data, ok, tx, m))
    /\ UNCHANGED account

GetBalance ==
    /\ pc = "dispatch"
    /\ HandlerFor(command) = "get_balance"
    /\ \E ok \in BOOLEAN, acct \in Accounts, m \in QueryErrors :
          /\ account' = IF ok THEN acct ELSE account
          /\ Return(get_balance(client, wallet, ok, acct, m))

Unknown ==
    /\ pc = "dispatch"
    /\ HandlerFor(command) = "unknown"
    /\ Return(Handled(UnknownCommand(command), <<>>, <<>>))
    /\ UNCHANGED account

\* print(json.dumps(result)); sys.exit(0 if result.get("success") else 1)
MainWrite ==
    /\ pc = "print"
    /\ stdout' = Append(stdout, result)
    /\ SysExit(ExitCodeFor(result))
    /\ UNCHANGED <<HAS_DYDX, stdin, environ, command, network, data, mnemonic,
                   self_network, client, wallet, account, result, exitcode,
                   inTry, sdkCalls, raised>>

\* except Exception as e: print the failure, sys.exit(1)
MainExcept ==
    /\ pc = "raised"
    /\ inTry
    /\ Catches(exc)
    /\ result' = Failure(exc.msg)
    /\ stdout' = Append(stdout, result')
    /\ inTry' = FALSE
    /\ SysExit(1)
    /\ UNCHANGED <<HAS_DYDX, stdin, environ, command, network, data, mnemonic,
                   self_network, client, wallet, account, exitcode, sdkCalls, raised>>

\* the exception leaves main() and asyncio.run(): the interpreter exits
ProcessExit ==
    /\ pc = "raised"
    /\ ~(inTry /\ Catches(exc))
    /\ exitcode' = IF exc.cls = "SystemExit" THEN exc.code ELSE 1
    /\ pc' = "exited"
    /\ inTry' = FALSE
    /\ UNCHANGED <<HAS_DYDX, stdin, environ, command, network, data, mnemonic,
                   self_network, client, wallet, account, result, stdout, exc,
                   sdkCalls, raised>>

Next ==
    \/ StartupNoSdk
    \/ StartupRun
    \/ MainParseError
    \/ MainParse
    \/ Construct
    \/ Connect
    \/ DeriveKeyPair
    \/ CreateWallet
    \/ PlaceOrder
    \/ CancelOrder
    \/ GetBalance
    \/ Unknown
    \/ MainWrite
    \/ MainExcept
    \/ ProcessExit

Spec == Init /\ [][Next]_vars

\* The interpreter runs the next statement, and every awaited SDK call returns
\* or raises.
FairSpec == Spec /\ WF_vars(Next)


(* ---------------------------------------------------------------------- *)
(* Properties                                                              *)
(* ---------------------------------------------------------------------- *)
Exited == pc = "exited"
IsObject == stdin.kind = "object"
RequestedNetwork == NetworkOrDefault(stdin.network)
RequestedData == DataOrDefault(stdin.data)
CallsOf(fn) == {i \in DOMAIN sdkCalls : sdkCalls[i].fn = fn}
Initialized == wallet # None

\* C1: whenever the process has written a Result and exited, the exit code is
\* 0 exactly when the written Result's success field is true, and 1 otherwise.
C1_ExitCodeAgreesWithSuccess ==
    (Exited /\ stdout # <<>>) =>
        /\ exitcode \in {0, 1}
        /\ \A i \in DOMAIN stdout : (exitcode = 0) <=> stdout[i].success

C1_Witness ==
    /\ Exited /\ stdout # <<>> /\ stdout[1].success /\ exitcode = 0
    /\ raised = <<>>

\* C2: for a valid JSON object on stdin the process eventually terminates with
\* exactly one Result on stdout, and at no time has it written more than one.
C2_ExactlyOneResult ==
    /\ <>[](IsObject => (Exited /\ Len(stdout) = 1))
    /\ [](IsObject => Len(stdout) <= 1)

\* The first write happened inside the try block and the exit it raised left
\* main() without a second write.
C2_Witness ==
    /\ Exited /\ IsObject /\ Len(stdout) = 1
    /\ raised = <<>> /\ exc.cls = "SystemExit" /\ sdkCalls # <<>>

\* C3 (as claimed): a cancel_order request with the credential present and no
\* orderId in data ends with exactly the "orderId is required" failure, exit
\* code 1, and no SDK call at all during the invocation.
C3_Original ==
    (/\ Exited /\ HAS_DYDX /\ IsObject /\ environ # ""
     /\ stdin.command = "cancel_order"
     /\ RequestedNetwork \in {"testnet", "mainnet"}
     /\ RequestedData.kind = "dict" /\ RequestedData.orderId = Absent)
    => /\ stdout = <<Failure(ORDER_ID_REQUIRED)>>
       /\ exitcode = 1
       /\ sdkCalls = <<>>

\* C3 (amended): such a request never reaches the SDK's cancel call and exits
\* with code 1; once connect and wallet derivation have succeeded its Result
\* is exactly the "orderId is required" failure.
C3_NoCancelWithoutOrderId ==
    (/\ Exited /\ IsObject /\ environ # ""
     /\ stdin.command = "cancel_order"
     /\ RequestedData.kind = "dict" /\ RequestedData.orderId = Absent)
    => /\ CallsOf("cancel_order") = {}
       /\ exitcode = 1
       /\ Initialized => /\ stdout = <<Failure(ORDER_ID_REQUIRED)>>
                         /\ CallsOf("NodeClient.connect") # {}
                         /\ CallsOf("Wallet.from_mnemonic") # {}

C3_Witness ==
    /\ Exited /\ IsObject /\ environ # "" /\ stdin.command = "cancel_order"
    /\ RequestedData.kind = "dict" /\ RequestedData.orderId = Absent
    /\ Initialized /\ stdout = <<Failure(ORDER_ID_REQUIRED)>>

RecognizedCommands == {"place_order", "cancel_order", "get_balance"}

\* C4 (as claimed): a request with an unrecognised command ends with a failure
\* naming the unknown command and exit code 1, whatever the credential, the
\* network and the outcome of connect are.
C4_Original ==
    (Exited /\ HAS_DYDX /\ IsObject /\ stdin.command \notin RecognizedCommands)
    => /\ stdout = <<UnknownCommand(stdin.command)>>
       /\ exitcode = 1

\* C4 (amended): such a request always ends with one failure Result and exit
\* code 1; the error names the unknown command once the credential is present
\* and construction, connect and wallet derivation have succeeded.
C4_UnknownCommandFails ==
    (Exited /\ IsObject /\ stdin.command \notin RecognizedCommands)
    => /\ Len(stdout) = 1
       /\ ~stdout[1].success
       /\ "error" \in stdout[1].keys
       /\ exitcode = 1
       /\ Initialized => stdout = <<UnknownCommand(stdin.command)>>

C4_Witness ==
    /\ Exited /\ IsObject /\ stdin.command \notin RecognizedCommands
    /\ Initialized /\ stdout = <<UnknownCommand(stdin.command)>> /\ exitcode = 1

\* C5: a parsed request run with an empty or unset credential never constructs
\* a client and never calls the SDK, and it ends with the fixed "mnemonic not
\* provided" failure and exit code 1, whatever its command and network are.
C5_NoCredentialNoCall ==
    (HAS_DYDX /\ IsObject /\ environ = "")
    => /\ sdkCalls = <<>>
       /\ self_network = None /\ client = None /\ wallet = None
       /\ Exited => (stdout = <<Failure(MNEMONIC_MISSING)>> /\ exitcode = 1)

C5_Witness ==
    /\ Exited /\ HAS_DYDX /\ IsObject /\ environ = ""
    /\ stdin.command = "place_order" /\ RequestedNetwork = "mainnet"
    /\ stdout = <<Failure(MNEMONIC_MISSING)>>

\* The SDK calls that go to a node of the chosen network.
NetworkCalls == {"NodeClient.connect", "Wallet.from_mnemonic", "cancel_order", "get_subaccounts"}
ProfileNamed(n) == IF n = "mainnet" THEN "MAINNET" ELSE IF n = "testnet" THEN "TESTNET" ELSE None

\* C6: every connect and every later SDK call targets the profile of the
\* network named in the request; a network that is neither literal never
\* reaches connect and ends in a failure Result.
C6_BoundToRequestedNetwork ==
    (IsObject /\ pc \notin {"start", "main"}) =>
        /\ \A i \in DOMAIN sdkCalls :
              sdkCalls[i].fn \in NetworkCalls => sdkCalls[i].net = ProfileNamed(RequestedNetwork)
        /\ RequestedNetwork \notin {"testnet", "mainnet"} =>
              /\ CallsOf("NodeClient.connect") = {}
              /\ Exited => (Len(stdout) = 1 /\ ~stdout[1].success)

\* C7: a successful place_order Result is written only after an order
\* submission call to the SDK has returned, and carries that submission's
\* order id and a non-empty transaction hash.
C7_PlaceOrderSubmits ==
    \A i \in DOMAIN stdout :
        (stdin.command = "place_order" /\ stdout[i].success) =>
            /\ \E j \in DOMAIN sdkCalls : sdkCalls[j].fn = "place_order" /\ sdkCalls[j].ok
            /\ stdout[i].txHash # ""
            /\ stdout[i].orderId \notin Uuids

\* C8: every exception raised between reading stdin and writing the Result
\* becomes the one failure Result carrying its message, with exit code 1; no
\* SDK call follows a failed one and no SDK call is made twice.
C8_EveryExceptionBecomesFailure ==
    (Exited /\ HAS_DYDX) =>
        /\ raised # <<>> => /\ Len(raised) = 1
                            /\ stdout = <<Failure(raised[1])>>
                            /\ exitcode = 1
        /\ \A i \in DOMAIN sdkCalls : ~sdkCalls[i].ok => i = Len(sdkCalls)
        /\ \A i, j \in DOMAIN sdkCalls : sdkCalls[i].fn = sdkCalls[j].fn => i = j

\* C9: when the subaccount query of a get_balance request succeeds, the Result
\* is {success: true, balance: B} where B holds exactly the asset symbols of
\* the first subaccount's positions with their amounts, nothing of another
\* subaccount, and B is empty without subaccounts or positions.
QuerySucceeded == \E i \in CallsOf("get_subaccounts") : sdkCalls[i].ok
SymbolOrDefault(p) == IF p.symbol = Absent THEN "USDC" ELSE p.symbol
SizeOrDefault(p) == IF p.size = Absent THEN "0" ELSE p.size
C9_BalanceOfFirstSubaccount ==
    (QuerySucceeded /\ stdout # <<>>) =>
        /\ Len(stdout) = 1
        /\ stdout[1].keys = {"success", "balance"}
        /\ stdout[1].success
        /\ LET B == stdout[1].balance
               first == IF account = <<>> THEN <<>> ELSE account[1]
           IN /\ DOMAIN B = {SymbolOrDefault(first[k]) : k \in DOMAIN first}
              /\ \A s \in DOMAIN B :
                    \E k \in DOMAIN first :
                       /\ SymbolOrDefault(first[k]) = s
                       /\ SizeOrDefault(first[k]) = B[s]
              /\ (account = <<>> \/ first = <<>>) => B = EmptyBalance

C9_Witness ==
    /\ Exited /\ QuerySucceeded /\ Len(account) >= 2
    /\ Len(account[1]) >= 2 /\ account[2] # <<>>
    /\ stdout[1].success /\ DOMAIN stdout[1].balance # {}

\* The values a Result carries.
Mentions(r, v) ==
    \/ r.error.arg = v
    \/ r.error.text = v
    \/ r.orderId = v \/ r.clientId = v \/ r.txHash = v
    \/ \E s \in DOMAIN r.balance : s = v \/ r.balance[s] = v

\* C10: the credential never appears in the emitted Result, also when the
\* error is the message of an exception the SDK raised during wallet
\* derivation or connect.
C10_CredentialNotInResult ==
    \A i \in DOMAIN stdout : environ # "" => ~Mentions(stdout[i], environ)

====
